---------------------------- MODULE Spec2Model ----------------------------
(***************************************************************************)
(* Model of scripts/view_animation.py: the FLWA container reader           *)
(* (read_header, read_frame_indices, read_frame), main()'s load phase and  *)
(* the Dash viewer callbacks (update_figure, toggle_play, advance_frame).  *)
(*                                                                         *)
(* A file is a sequence of bytes (0..255).  A float32 is kept as the four  *)
(* little-endian bytes numpy keeps for it (np.frombuffer copies no bits).  *)
(* Python integers are unbounded; the inputs are chosen so that every      *)
(* decoded integer stays below 2^31.                                       *)
(***************************************************************************)
EXTENDS Integers, Sequences, FiniteSets, TLC

VARIABLES
    file,               \* the bytes of the file named on the command line
    pos,                \* f.tell(): the position of the open file object
    pc,                 \* where main() is
    header,             \* main's `header`
    indices,            \* main's `indices`
    frames,             \* main's `frames` (the list the comprehension builds)
    data,               \* read_frame's `data`: the bytes its f.read returned
    error,              \* the exception that ended main(), or a callback
    slider_value,       \* frame-slider.value
    n_clicks,           \* play-button.n_clicks
    interval_disabled,  \* interval.disabled
    n_intervals,        \* interval.n_intervals
    play_label,         \* play-button.children
    figure              \* what update_figure returned last

vars == <<file, pos, pc, header, indices, frames, data, error,
          slider_value, n_clicks, interval_disabled, n_intervals,
          play_label, figure>>

loadVars == <<file, pos, pc, header, indices, frames, data, error>>
viewVars == <<slider_value, n_clicks, interval_disabled, n_intervals,
              play_label, figure>>

---------------------------------------------------------------------------
(* Bounds of the model. *)
MaxDim == 2        \* width and height range over 0..MaxDim
MaxFrames == 3     \* frames stored in a generated container
MaxClicks == 3     \* play-button clicks followed
MaxTicks == 3      \* interval ticks counted

Depths == {0, 1, 2}
Channels == {0, 1, 2}
Cuts == {0, 1}     \* bytes missing at the end of the file

---------------------------------------------------------------------------
(* Python and struct primitives. *)

Min(a, b) == IF a < b THEN a ELSE b
Max(a, b) == IF a > b THEN a ELSE b

None == [none |-> TRUE]

\* bytes[start:end] for 0 <= start <= end: Python clamps to the length.
Slice(bytes, start, end) ==
    SubSeq(bytes, Min(start, Len(bytes)) + 1, Min(end, Len(bytes)))

\* f.read(n) at position p: the bytes there are, at most n of them.
FRead(f, p, n) == IF p >= Len(f) THEN <<>> ELSE Slice(f, p, p + n)

\* int.from_bytes(bytes, "little"), high byte first so that zero high bytes
\* cost nothing.
RECURSIVE LittleEndian(_)
LittleEndian(bytes) ==
    IF bytes = <<>> THEN 0
    ELSE bytes[1] + 256 * LittleEndian(Tail(bytes))

\* struct.unpack("<H" | "<I" | "<Q" | "<f", bytes): struct.error unless the
\* buffer has exactly the format's size.
StructError == [type |-> "struct.error", msg |-> "unpack requires a buffer", args |-> <<>>]
Unpackable(size, bytes) == Len(bytes) = size

\* a & b on non-negative integers, bit by bit.
RECURSIVE BitAnd(_, _)
BitAnd(a, b) ==
    IF a = 0 \/ b = 0 THEN 0
    ELSE (a % 2) * (b % 2) + 2 * BitAnd(a \div 2, b \div 2)

\* 1 << n
RECURSIVE Shl1(_)
Shl1(n) == IF n = 0 THEN 1 ELSE 2 * Shl1(n - 1)

\* list[i] with Python's negative indices; IndexError outside -len..len-1.
InPyRange(list, i) == -Len(list) <= i /\ i < Len(list)
PyIndex(list, i) == IF i < 0 THEN list[Len(list) + i + 1] ELSE list[i + 1]

---------------------------------------------------------------------------
(* read_header *)

FLWA == <<70, 76, 87, 65>>      \* b"FLWA"

MagicError(magic) ==
    [type |-> "ValueError", msg |-> "Invalid magic bytes", args |-> <<magic>>]
VersionError(version) ==
    [type |-> "ValueError", msg |-> "Unsupported version", args |-> <<version>>]

compression_of(flags) == BitAnd(flags, 15)
\* Mutant: bit 4 tested without masking the bits above it.
delta_encoding_unmasked(flags) == flags \div 16 # 0
delta_encoding_of(flags) == BitAnd(flags, Shl1(4)) # 0

\* The header fields after the version, read at offsets 6..35; the 16
\* reserved bytes are read and dropped, however many there are.
\* Result: [ok, value, pos].
read_fields(f) ==
    LET bflags  == FRead(f, 6, 2)
        bwidth  == FRead(f, 8, 4)
        bheight == FRead(f, 12, 4)
        bdepth  == FRead(f, 16, 4)
        bchan   == FRead(f, 20, 4)
        bcount  == FRead(f, 24, 8)
        bdt     == FRead(f, 32, 4)
        fail(p) == [ok |-> FALSE, value |-> StructError, pos |-> Min(p, Len(f))]
    IN  IF ~Unpackable(2, bflags) THEN fail(8)
        ELSE IF ~Unpackable(4, bwidth) THEN fail(12)
        ELSE IF ~Unpackable(4, bheight) THEN fail(16)
        ELSE IF ~Unpackable(4, bdepth) THEN fail(20)
        ELSE IF ~Unpackable(4, bchan) THEN fail(24)
        ELSE IF ~Unpackable(8, bcount) THEN fail(32)
        ELSE IF ~Unpackable(4, bdt) THEN fail(36)
        ELSE [ok |-> TRUE,
              value |-> [width |-> LittleEndian(bwidth),
                         height |-> LittleEndian(bheight),
                         depth |-> LittleEndian(bdepth),
                         channels |-> LittleEndian(bchan),
                         frame_count |-> LittleEndian(bcount),
                         dt |-> bdt,
                         compression |-> compression_of(LittleEndian(bflags)),
                         delta_encoding |-> delta_encoding_of(LittleEndian(bflags))],
              pos |-> Min(52, Len(f))]

\* Mutant: only the low byte of the version is compared.
version_ok_low_byte(version) == version % 256 = 1
version_ok(version) == version = 1

\* read_header(f) on a file object at position 0.  Result: [ok, value, pos].
read_header(f) ==
    LET magic == FRead(f, 0, 4)
        bversion == FRead(f, 4, 2)
    IN  IF magic # FLWA
        THEN [ok |-> FALSE, value |-> MagicError(magic), pos |-> Len(magic)]
        ELSE IF ~Unpackable(2, bversion)
        THEN [ok |-> FALSE, value |-> StructError, pos |-> Len(f)]
        ELSE IF ~version_ok(LittleEndian(bversion))
        THEN [ok |-> FALSE, value |-> VersionError(LittleEndian(bversion)), pos |-> 6]
        ELSE read_fields(f)

---------------------------------------------------------------------------
(* read_frame_indices *)

SeekError == [type |-> "OSError", msg |-> "Invalid argument", args |-> <<>>]

index_start_of(file_len, frame_count) == file_len - frame_count * 16

\* The i-th entry (i from 0) read at index_start + 16*i.
index_entry(f, index_start, i) ==
    [offset |-> LittleEndian(FRead(f, index_start + 16 * i, 8)),
     size |-> LittleEndian(FRead(f, index_start + 16 * i + 8, 8))]

\* read_frame_indices(f, header).  f.seek of a negative offset raises; from
\* index_start >= 0 on, frame_count * 16 bytes are there to read.
\* Result: [ok, value, pos].
read_frame_indices(f, hdr) ==
    LET file_len == Len(f)
        index_start == index_start_of(file_len, hdr.frame_count)
    IN  IF index_start < 0
        THEN [ok |-> FALSE, value |-> SeekError, pos |-> file_len]
        ELSE [ok |-> TRUE,
              value |-> [i \in 1..hdr.frame_count |-> index_entry(f, index_start, i - 1)],
              pos |-> file_len]

---------------------------------------------------------------------------
(* read_frame *)

CompressionError ==
    [type |-> "ValueError", msg |-> "Compression not supported in viewer (yet)", args |-> <<>>]
BufferError ==
    [type |-> "ValueError", msg |-> "buffer size must be a multiple of element size", args |-> <<>>]
ReshapeError(size, shape) ==
    [type |-> "ValueError", msg |-> "cannot reshape array", args |-> <<size, shape>>]

grid_size_of(hdr) == hdr.width * hdr.height * hdr.depth

\* data[start:end] of channel c.
channel_slice(bytes, c, grid_size) ==
    Slice(bytes, c * grid_size * 4, c * grid_size * 4 + grid_size * 4)

\* np.frombuffer(bytes, dtype=np.float32): ValueError unless the length is a
\* multiple of 4; element k is bytes 4k..4k+3.
frombuffer_ok(bytes) == Len(bytes) % 4 = 0
frombuffer(bytes) == [k \in 1..(Len(bytes) \div 4) |-> SubSeq(bytes, 4 * k - 3, 4 * k)]

\* arr.reshape((depth, height, width)): ValueError unless the sizes agree;
\* C order, the last axis fastest.
reshape_ok(arr, depth, height, width) == Len(arr) = depth * height * width
\* Mutant: Fortran order, the first axis fastest.
reshape_first_axis_fastest(arr, depth, height, width) ==
    [idx \in (0..depth - 1) \X (0..height - 1) \X (0..width - 1) |->
        arr[(idx[3] * height + idx[2]) * depth + idx[1] + 1]]
reshape(arr, depth, height, width) ==
    [idx \in (0..depth - 1) \X (0..height - 1) \X (0..width - 1) |->
        arr[(idx[1] * height + idx[2]) * width + idx[3] + 1]]

\* What the loop body raises for channel c, or None.
channel_error(bytes, hdr, c) ==
    LET sl == channel_slice(bytes, c, grid_size_of(hdr))
    IN  IF ~frombuffer_ok(sl) THEN BufferError
        ELSE IF ~reshape_ok(frombuffer(sl), hdr.depth, hdr.height, hdr.width)
        THEN ReshapeError(Len(frombuffer(sl)), <<hdr.depth, hdr.height, hdr.width>>)
        ELSE None

\* frame_data once every channel is assigned.
frame_data_of(bytes, hdr) ==
    [shape |-> <<hdr.channels, hdr.depth, hdr.height, hdr.width>>,
     at |-> [idx \in (0..hdr.channels - 1) \X (0..hdr.depth - 1)
                      \X (0..hdr.height - 1) \X (0..hdr.width - 1) |->
                reshape(frombuffer(channel_slice(bytes, idx[1], grid_size_of(hdr))),
                        hdr.depth, hdr.height, hdr.width)[<<idx[2], idx[3], idx[4]>>]]]

\* Mutant: the compression check made after the channel loop.
decode_frame_check_late(bytes, hdr) ==
    LET bad == {c \in 0..hdr.channels - 1 : channel_error(bytes, hdr, c) # None}
        first == CHOOSE c \in bad : \A o \in bad : c <= o
    IN  IF bad # {} THEN [ok |-> FALSE, value |-> channel_error(bytes, hdr, first)]
        ELSE IF hdr.compression # 0 THEN [ok |-> FALSE, value |-> CompressionError]
        ELSE [ok |-> TRUE, value |-> frame_data_of(bytes, hdr)]

\* The decode after the read: the compression check, then the channel loop,
\* which stops at the first channel that raises.  Result: [ok, value].
decode_frame(bytes, hdr) ==
    LET bad == {c \in 0..hdr.channels - 1 : channel_error(bytes, hdr, c) # None}
        first == CHOOSE c \in bad : \A o \in bad : c <= o
    IN  IF hdr.compression # 0 THEN [ok |-> FALSE, value |-> CompressionError]
        ELSE IF bad # {} THEN [ok |-> FALSE, value |-> channel_error(bytes, hdr, first)]
        ELSE [ok |-> TRUE, value |-> frame_data_of(bytes, hdr)]

\* read_frame(f, header, index).  Result: [ok, value, data, pos].
read_frame(f, hdr, index) ==
    LET bytes == FRead(f, index.offset, index.size)
        res == decode_frame(bytes, hdr)
    IN  [ok |-> res.ok, value |-> res.value, data |-> bytes,
         pos |-> index.offset + Len(bytes)]

---------------------------------------------------------------------------
(* main(): the load phase *)

ReadHeader ==
    /\ pc = "read_header"
    /\ LET r == read_header(file)
       IN  /\ pos' = r.pos
           /\ IF r.ok
              THEN /\ header' = r.value
                   /\ pc' = "read_frame_indices"
                   /\ error' = error
              ELSE /\ header' = header
                   /\ pc' = "failed"
                   /\ error' = r.value
    /\ UNCHANGED <<file, indices, frames, data>>
    /\ UNCHANGED viewVars

ReadFrameIndices ==
    /\ pc = "read_frame_indices"
    /\ LET r == read_frame_indices(file, header)
       IN  /\ pos' = r.pos
           /\ IF r.ok
              THEN /\ indices' = r.value
                   /\ pc' = "read_frames"
                   /\ error' = error
              ELSE /\ indices' = indices
                   /\ pc' = "failed"
                   /\ error' = r.value
    /\ UNCHANGED <<file, header, frames, data>>
    /\ UNCHANGED viewVars

\* Mutant: a frame that fails to decode is skipped and the load goes on.
load_step_skip(r, loaded) ==
    [pc |-> "read_frames",
     frames |-> Append(loaded, IF r.ok THEN r.value ELSE None),
     error |-> IF r.ok THEN None ELSE r.value]

\* What one iteration of the comprehension leaves: [pc, frames, error].
\* An exception leaves main(); the list under construction is dropped.
load_step(r, loaded) ==
    IF r.ok
    THEN [pc |-> "read_frames", frames |-> Append(loaded, r.value), error |-> None]
    ELSE [pc |-> "failed", frames |-> <<>>, error |-> r.value]

\* One iteration of [read_frame(f, header, idx) for idx in indices].
ReadFrame ==
    /\ pc = "read_frames"
    /\ Len(frames) < Len(indices)
    /\ LET r == read_frame(file, header, indices[Len(frames) + 1])
           s == load_step(r, frames)
       IN  /\ pos' = r.pos
           /\ data' = r.data
           /\ pc' = s.pc
           /\ frames' = s.frames
           /\ error' = IF r.ok THEN error ELSE s.error
    /\ UNCHANGED <<file, header, indices>>
    /\ UNCHANGED viewVars

\* The comprehension is exhausted: the file is closed, the layout is built
\* with its initial property values, and app.run serves it.
StartViewer ==
    /\ pc = "read_frames"
    /\ Len(frames) = Len(indices)
    /\ pc' = "viewer"
    /\ slider_value' = 0
    /\ n_clicks' = 0
    /\ interval_disabled' = TRUE
    /\ n_intervals' = 0
    /\ play_label' = "Play"
    /\ UNCHANGED <<file, pos, header, indices, frames, data, error, figure>>

---------------------------------------------------------------------------
(* The Dash callbacks *)

IndexError == [type |-> "IndexError", msg |-> "index out of range", args |-> <<>>]
ZeroDivisionError ==
    [type |-> "ZeroDivisionError", msg |-> "integer modulo by zero", args |-> <<>>]

\* frames[frame_idx]: the list's own index check, negative indices included.
frame_lookup_ok(loaded, frame_idx) == InPyRange(loaded, frame_idx)

\* create_2d_figure / create_3d_figure index the frame by channel, and the
\* 2D one by the middle depth slice too.
figure_ok(frame, channel) ==
    /\ -frame.shape[1] <= channel /\ channel < frame.shape[1]
    /\ frame.shape[2] > 1 \/ frame.shape[2] \div 2 < frame.shape[2]

\* update_figure(frame_idx, channel).  Result: what the callback returns, or
\* the exception it raises.
update_figure(loaded, hdr, frame_idx, channel) ==
    IF ~frame_lookup_ok(loaded, frame_idx)
    THEN [ok |-> FALSE, value |-> IndexError, frame_idx |-> frame_idx]
    ELSE IF ~figure_ok(PyIndex(loaded, frame_idx), channel)
    THEN [ok |-> FALSE, value |-> IndexError, frame_idx |-> frame_idx]
    ELSE [ok |-> TRUE,
          value |-> [frame |-> PyIndex(loaded, frame_idx),
                     channel |-> channel,
                     is_3d |-> hdr.depth > 1,
                     info |-> <<frame_idx, Len(loaded) - 1>>],
          frame_idx |-> frame_idx]

\* toggle_play(n_clicks)
toggle_play(clicks) ==
    IF clicks % 2 = 1
    THEN [disabled |-> FALSE, children |-> "Pause"]
    ELSE [disabled |-> TRUE, children |-> "Play"]

\* Mutant: no wrap at the last frame.
advance_frame_no_wrap(triggered, current_frame, nframes) ==
    IF triggered = "interval.n_intervals"
    THEN current_frame + 1
    ELSE current_frame

\* advance_frame(n_intervals, current_frame), given the property that
\* triggered it; nframes is len(frames) > 0.
advance_frame(triggered, current_frame, nframes) ==
    IF triggered = "interval.n_intervals"
    THEN (current_frame + 1) % nframes
    ELSE current_frame

\* The frame indices a request to update_figure carries: the slider's, and
\* the ones next to and beyond the ends of the list.
RequestIndices == -(Len(frames) + 1) .. Len(frames) + 1

UpdateFigure ==
    /\ pc = "viewer"
    /\ \E frame_idx \in RequestIndices, channel \in {0} \cup (0..header.channels - 1) :
          figure' = update_figure(frames, header, frame_idx, channel)
    /\ UNCHANGED loadVars
    /\ UNCHANGED <<slider_value, n_clicks, interval_disabled, n_intervals, play_label>>

ClickPlay ==
    /\ pc = "viewer"
    /\ n_clicks < MaxClicks
    /\ n_clicks' = n_clicks + 1
    /\ interval_disabled' = toggle_play(n_clicks + 1).disabled
    /\ play_label' = toggle_play(n_clicks + 1).children
    /\ UNCHANGED loadVars
    /\ UNCHANGED <<slider_value, n_intervals, figure>>

\* The interval fires while it is enabled; advance_frame runs on it.
IntervalTick ==
    /\ pc = "viewer"
    /\ ~interval_disabled
    /\ n_intervals < MaxTicks
    /\ n_intervals' = n_intervals + 1
    /\ IF Len(frames) = 0
       THEN /\ error' = ZeroDivisionError
            /\ slider_value' = slider_value
       ELSE /\ error' = error
            /\ slider_value' = advance_frame("interval.n_intervals", slider_value, Len(frames))
    /\ UNCHANGED <<file, pos, pc, header, indices, frames, data>>
    /\ UNCHANGED <<n_clicks, interval_disabled, play_label, figure>>

\* The user drags the slider within its min..max; advance_frame runs on it.
SliderMove ==
    /\ pc = "viewer"
    /\ \E v \in 0..Len(frames) - 1 :
          slider_value' = advance_frame("frame-slider.value", v, Len(frames))
    /\ UNCHANGED loadVars
    /\ UNCHANGED <<n_clicks, interval_disabled, n_intervals, play_label, figure>>

---------------------------------------------------------------------------
(* The containers the model is run on.  No writer is part of the          *)
(* repository: these build input files in the layout read_header,         *)
(* read_frame_indices and read_frame read.                                *)

\* n as `width` little-endian bytes.
RECURSIVE ToLittleEndian(_, _)
ToLittleEndian(n, width) ==
    IF width = 0 THEN <<>>
    ELSE <<n % 256>> \o ToLittleEndian(n \div 256, width - 1)

Zeros(n) == [i \in 1..n |-> 0]

\* float32 1.0, 1.0, 0.5, -0.5, 0.25 as little-endian bytes.
Palette == << <<0, 0, 128, 63>>, <<0, 0, 128, 63>>, <<0, 0, 0, 63>>,
              <<0, 0, 0, 191>>, <<0, 0, 128, 62>> >>

\* The k-th float (k from 0) written for frame i (i from 0).
StoredFloat(i, k) == Palette[((2 * i + k) % Len(Palette)) + 1]

\* The payload of frame i, `size` bytes long.
StoredPayload(i, size) ==
    [j \in 1..size |-> StoredFloat(i, (j - 1) \div 4)[((j - 1) % 4) + 1]]

HeaderBytes(magic, version, flags, w, h, d, c, frame_count) ==
    magic \o ToLittleEndian(version, 2) \o ToLittleEndian(flags, 2)
          \o ToLittleEndian(w, 4) \o ToLittleEndian(h, 4)
          \o ToLittleEndian(d, 4) \o ToLittleEndian(c, 4)
          \o ToLittleEndian(frame_count, 8) \o <<0, 0, 0, 63>> \o Zeros(16)

RECURSIVE SumTo(_, _)
SumTo(sizes, n) == IF n = 0 THEN 0 ELSE sizes[n] + SumTo(sizes, n - 1)

RECURSIVE Payloads(_, _)
Payloads(sizes, n) ==
    IF n = 0 THEN <<>>
    ELSE Payloads(sizes, n - 1) \o StoredPayload(n - 1, sizes[n])

RECURSIVE IndexTable(_, _)
IndexTable(sizes, n) ==
    IF n = 0 THEN <<>>
    ELSE IndexTable(sizes, n - 1)
            \o ToLittleEndian(52 + SumTo(sizes, n - 1), 8)
            \o ToLittleEndian(sizes[n], 8)

\* A container with Len(sizes) frames, frame i stored in sizes[i+1] bytes,
\* whose header announces frame_count frames, less its last `cut` bytes.
Container(magic, version, flags, w, h, d, c, frame_count, sizes, cut) ==
    LET full == HeaderBytes(magic, version, flags, w, h, d, c, frame_count)
                    \o Payloads(sizes, Len(sizes)) \o IndexTable(sizes, Len(sizes))
    IN  SubSeq(full, 1, Len(full) - cut)

\* n frames of the size the header's dimensions give, frame `bad` (from 0)
\* stored `delta` bytes longer or shorter.
Sizes(n, w, h, d, c, bad, delta) ==
    [i \in 1..n |-> IF i = bad + 1 THEN Max(0, w * h * d * c * 4 + delta)
                    ELSE w * h * d * c * 4]

Magics == {FLWA, <<70, 76, 87, 66>>, <<102, 108, 119, 97>>, <<70, 76, 87, 0>>}
Versions == {0, 1, 2, 257}
FlagValues == (0..63) \cup {64, 87, 2048, 2055, 32768, 32775, 32784, 65504, 65519, 65535}
Deltas == {-4, -1, 1, 4, 8}

\* Headers of every magic and version, and of every flags value, over a
\* two-frame container.
HeaderFiles ==
    {Container(m, v, fl, 2, 1, 1, 1, 2, Sizes(2, 2, 1, 1, 1, 2, 0), 0) :
        m \in Magics, v \in Versions, fl \in {0, 23, 65535}}
    \cup
    {Container(FLWA, 1, fl, 2, 1, 1, 1, 2, Sizes(2, 2, 1, 1, 1, 2, 0), 0) :
        fl \in FlagValues}

\* Files that end inside or right after the header.
ShortFiles ==
    {SubSeq(Container(FLWA, 1, 0, 1, 1, 1, 1, fc, <<>>, 0), 1, n) :
        fc \in {0, 20}, n \in {0, 2, 4, 5, 6, 7, 8, 11, 23, 31, 35, 36, 40, 51, 52}}
    \cup
    {SubSeq(Container(FLWA, 1, 0, w, 1, 1, c, 1, <<>>, 0), 1, n) :
        w \in {0, 1}, c \in {0, 1}, n \in {40, 51, 52}}

\* Containers of every shape, with one frame stored too long or too short,
\* or the file cut short.
ShapeFiles ==
    UNION {
      {Container(FLWA, 1, fl, w, h, d, c, n, Sizes(n, w, h, d, c, n, 0), cut) :
          cut \in Cuts}
      \cup
      {Container(FLWA, 1, fl, w, h, d, c, n, Sizes(n, w, h, d, c, bad, delta), 0) :
          bad \in 0..n - 1, delta \in Deltas}
      : fl \in {0, 7, 16}, w \in 0..MaxDim, h \in 0..MaxDim,
        d \in Depths, c \in Channels, n \in 0..MaxFrames }

\* Well-formed containers for the viewer.
ViewerFiles ==
    {Container(FLWA, 1, fl, w, 1, d, c, n, Sizes(n, w, 1, d, c, n, 0), 0) :
        fl \in {0, 16}, w \in 1..MaxDim, d \in {1, 2}, c \in {1, 2},
        n \in 0..MaxFrames}
    \cup
    {Container(FLWA, 1, 7, 1, 1, 1, 1, 1, Sizes(1, 1, 1, 1, 1, 1, 0), 0),
     Container(FLWA, 2, 0, 1, 1, 1, 1, 1, Sizes(1, 1, 1, 1, 1, 1, 0), 0),
     Container(FLWA, 1, 0, 1, 1, 1, 1, 20, <<>>, 0)}

InitOn(files) ==
    /\ file \in files
    /\ pos = 0
    /\ pc = "read_header"
    /\ header = None
    /\ indices = <<>>
    /\ frames = <<>>
    /\ data = <<>>
    /\ error = None
    /\ slider_value = 0
    /\ n_clicks = 0
    /\ interval_disabled = TRUE
    /\ n_intervals = 0
    /\ play_label = "Play"
    /\ figure = None

Init == InitOn(ViewerFiles)
InitLoad == InitOn(HeaderFiles \cup ShortFiles \cup ShapeFiles)

Load == ReadHeader \/ ReadFrameIndices \/ ReadFrame \/ StartViewer
Next == Load \/ UpdateFigure \/ ClickPlay \/ IntervalTick \/ SliderMove

\* The whole program on well-formed containers.
Spec == Init /\ [][Next]_vars
\* The load phase of main() on every generated file.
SpecLoad == InitLoad /\ [][Load]_vars

---------------------------------------------------------------------------
(* What the claims are stated with. *)

Signature == <<70, 76, 87, 65>>
FlagsField == file[7] + 256 * file[8]
WithFlags(f, flags) == [f EXCEPT ![7] = flags % 256, ![8] = flags \div 256]
\* No reserved bit, each reserved bit (5..15) alone, all of them.
ReservedPatterns == {0, 2047} \cup {Shl1(k) : k \in 0..10}

HeaderParsed == header # None
FrameElements == header.width * header.height * header.depth * header.channels

\* The trailing table's i-th entry (i from 0) and the float stored at flat
\* position k of the bytes it points to.
TableStart == Len(file) - 16 * header.frame_count
EntryOffset(i) == LittleEndian(SubSeq(file, TableStart + 16 * i + 1, TableStart + 16 * i + 8))
StoredAt(i, k) == SubSeq(file, EntryOffset(i) + 4 * k + 1, EntryOffset(i) + 4 * k + 4)
FlatPosition(idx) ==
    ((idx[1] * header.depth + idx[2]) * header.height + idx[3]) * header.width + idx[4]
GridIndices ==
    (0..header.channels - 1) \X (0..header.depth - 1)
        \X (0..header.height - 1) \X (0..header.width - 1)

\* The value of a normal float32, in units of 2^-23, for |value| in [2^-8, 2^7).
F32Value(b) ==
    LET sign == b[4] \div 128
        exp == (b[4] % 128) * 2 + b[3] \div 128
        mant == (b[3] % 128) * 65536 + b[2] * 256 + b[1]
        mag == IF exp >= 127 THEN (8388608 + mant) * Shl1(exp - 127)
               ELSE (8388608 + mant) \div Shl1(127 - exp)
    IN  IF sign = 1 THEN -mag ELSE mag

---------------------------------------------------------------------------
\* C1: with the delta flag set and codec 0, the frame handed out for index 0
\* is its stored payload and the frame for i > 0 is the element-wise sum of
\* the stored payload of frame i and the frame handed out for i-1.
C1_DeltaReconstructed ==
    (pc = "viewer" /\ header.delta_encoding /\ header.compression = 0) =>
        \A i \in 1..Len(frames) : \A idx \in GridIndices :
            IF i = 1
            THEN frames[i].at[idx] = StoredAt(0, FlatPosition(idx))
            ELSE F32Value(frames[i].at[idx]) =
                    F32Value(StoredAt(i - 1, FlatPosition(idx)))
                        + F32Value(frames[i - 1].at[idx])

\* C2: read_frame_indices returns an index list only if the index start,
\* file_length - frame_count*16, is neither negative nor inside the 52-byte
\* header region.
C2_TruncatedIndexRejected ==
    (HeaderParsed /\ pc \in {"read_frames", "viewer"}) =>
        Len(file) - header.frame_count * 16 >= 52

\* C3: with codec 0, read_frame returns a frame only when the payload bytes
\* it obtained number exactly width*height*depth*channels*4 (stated for the
\* containers whose index table lies behind the header).
C3_SizeChecked ==
    (pc \in {"read_frames", "viewer"} /\ Len(frames) > 0 /\ header.compression = 0
        /\ TableStart >= 52) =>
        Len(data) = FrameElements * 4

\* C4: a frame request with an index outside 0..frame_count-1 fails with an
\* out-of-range error and returns no frame's data.
C4_OutOfRangeRejected ==
    (pc = "viewer" /\ figure # None
        /\ figure.frame_idx \notin 0..header.frame_count - 1) =>
        (~figure.ok /\ figure.value = IndexError)

\* C5: read_header produces a header only if the first 4 bytes are "FLWA"
\* and the u16 after them is 1; otherwise main fails with no header, and on
\* a magic mismatch exactly the magic bytes (4, or the whole of a shorter
\* file) were read.
C5_MagicAndVersion ==
    /\ HeaderParsed =>
          (Len(file) >= 6 /\ SubSeq(file, 1, 4) = Signature
              /\ file[5] = 1 /\ file[6] = 0)
    /\ (pc # "read_header" /\ ~HeaderParsed) =>
          (pc = "failed" /\ indices = <<>> /\ frames = <<>>)
    /\ (pc # "read_header" /\ SubSeq(file, 1, Min(4, Len(file))) # Signature) =>
          (/\ ~HeaderParsed
           /\ error.msg = "Invalid magic bytes"
           /\ pos = Min(4, Len(file)))

C5_Witness ==
    /\ pc = "failed"
    /\ Len(file) > 52
    /\ SubSeq(file, 1, 4) # Signature
    /\ pos = 4
    /\ header = None

\* C6: with codec 0 and delta encoding off, frame i has the shape
\* (channels, depth, height, width) and its element (c, z, y, x) is the float
\* at flat position ((c*depth + z)*height + y)*width + x of the bytes at the
\* offset of the i-th entry of the trailing table.
C6_RoundTrip ==
    (HeaderParsed /\ header.compression = 0 /\ ~header.delta_encoding) =>
        \A i \in 1..Len(frames) :
            /\ frames[i].shape =
                  <<header.channels, header.depth, header.height, header.width>>
            /\ DOMAIN frames[i].at = GridIndices
            /\ \A idx \in GridIndices :
                  frames[i].at[idx] = StoredAt(i - 1, FlatPosition(idx))

C6_Witness ==
    /\ pc = "viewer"
    /\ header.compression = 0 /\ ~header.delta_encoding
    /\ Len(frames) = 3
    /\ frames[1].shape = <<2, 2, 2, 2>>
    /\ frames[3].at[<<1, 0, 1, 0>>] = StoredAt(2, 10)
    /\ frames[3].at[<<1, 0, 1, 0>>] # frames[3].at[<<0, 1, 0, 0>>]

C8_FlagsDecoding ==
    HeaderParsed =>
        /\ header.compression = FlagsField % 16
        /\ header.compression \in 0..15
        /\ header.delta_encoding = ((FlagsField \div 16) % 2 = 1)
        /\ \A r \in ReservedPatterns :
              LET other == read_header(WithFlags(file, (FlagsField % 32) + 32 * r))
              IN  other.ok /\ other.value = header

C8_Witness ==
    /\ HeaderParsed
    /\ FlagsField = 32775
    /\ header.compression = 7
    /\ ~header.delta_encoding

C10_Playback ==
    [][(pc' = "viewer" /\ Len(frames') >= 1) =>
          /\ slider_value' \in 0..Len(frames') - 1
          /\ interval_disabled' = (n_clicks' % 2 = 0)
          /\ (pc = "viewer" /\ n_intervals' # n_intervals) =>
                slider_value' = IF slider_value = Len(frames) - 1 THEN 0
                                ELSE slider_value + 1
          /\ (pc = "viewer" /\ n_clicks' # n_clicks) => slider_value' = slider_value
          /\ (pc = "viewer" /\ figure' # figure) => slider_value' = slider_value]_vars

C10_Witness ==
    /\ pc = "viewer"
    /\ Len(frames) = 3
    /\ n_intervals = 3
    /\ n_clicks = 3
    /\ slider_value = 0
    /\ ~interval_disabled

=============================================================================
